---- MODULE Spec2Model ----
(***************************************************************************)
(* Model of glusterd2/bricksplanner/planner.go: the topology resolver and  *)
(* layout generator (getBricksLayout and its two handlers) and the         *)
(* zone-aware two-pass allocator (PlanBricks).                             *)
(*                                                                         *)
(* Sizes are counted in MiB in the layout part (the byte values of the     *)
(* source exceed TLC's 32-bit integers) and in abstract units in the       *)
(* allocator part, which only compares and subtracts them.  A Go string    *)
(* built by concatenation is the tuple of its pieces, its zero value <<>>. *)
(***************************************************************************)
EXTENDS Integers, Sequences, FiniteSets, TLC

VARIABLES
    req,                 \* *api.VolCreateReq, mutated in place
    req0,                \* the request as the caller passed it (history)
    availableVgs,        \* working copy of the device inventory
    vgs0,                \* the inventory snapshot at call start (history)
    subvols,             \* local subvols of PlanBricks / result of getBricksLayout
    zones,               \* local zones map of PlanBricks (its key set)
    idx,                 \* subvolume loop index (1-based)
    bidx,                \* brick loop index (1-based)
    numBricksAllocated,  \* local counter of PlanBricks
    pc,                  \* position in the code
    err,                 \* returned error message, <<>> is nil
    entry,               \* the function the caller invoked
    log                  \* every placement made, in order (history)

vars == <<req, req0, availableVgs, vgs0, subvols, zones, idx, bidx,
          numBricksAllocated, pc, err, entry, log>>

----------------------------------------------------------------------------
(* Bounds of the model *)

MaxVgs == 3
MaxSubvols == 2
MaxBricks == 2

ZoneNames == {"zoneA", "zoneB"}
AvailSizes == {1, 2, 3}
BrickTotals == {1, 2}

----------------------------------------------------------------------------
(* Program constants, in MiB *)

MiB == 1
GiB == 1024 * MiB
TiB == 1024 * GiB
minBrickSize == 20 * MiB
defaultMaxLoopBrickSize == 100 * GiB

ProvisionerTypeLoop == "loop"
ProvisionerTypeLvm == "lvm"

NoError == <<>>
EmptyString == <<>>

ErrInvalidReplica == <<"invalid Replica Count">>
ErrInvalidArbiter == <<"invalid Arbiter Count">>
ErrRedundancyRequired == <<"disperse redundancy count is required">>
ErrInvalidRedundancy == <<"invalid redundancy count">>
ErrMaxBrickTooSmall == <<"invalid max-brick-size, Minimum size required is ", minBrickSize>>
ErrMaxBrickTooBig == <<"invalid max-brick-size, max brick size supported for loop back bricks is ", defaultMaxLoopBrickSize>>
ErrTypeNotSupported == <<"subvolume type not supported">>
ErrBrickTooSmall == <<"brick size is too small">>
ErrNoDevices == <<"no devices registered or available for allocating bricks">>
ErrNoSpace == <<"no space available or all the devices are not registered">>

----------------------------------------------------------------------------
(* The request and the bricks *)

\* A zero-valued api.VolCreateReq named "vol".
ZeroReq ==
    [Name |-> "vol", Size |-> 0, ReplicaCount |-> 0, ArbiterCount |-> 0,
     DisperseCount |-> 0, DisperseDataCount |-> 0,
     DisperseRedundancyCount |-> 0, DistributeCount |-> 0,
     MaxBrickSize |-> 0, ProvisionerType |-> ProvisionerTypeLvm,
     SnapshotReserveFactor |-> 1, SubvolZonesOverlap |-> FALSE,
     SubvolType |-> "", Subvols |-> <<>>]

\* The api.BrickReq that getBricksLayout appends for brick j of subvolume i
\* (both 1-based here, as i+1 and j+1 are in the names).
BrickReq(r, i, j, brickType, size, tpsize, tpmsize) ==
    [Type |-> brickType,
     TpName |-> <<"tp_", r.Name, "_s", i, "_b", j>>,
     LvName |-> <<"brick_", r.Name, "_s", i, "_b", j>>,
     Size |-> size,
     TpSize |-> tpsize,
     TpMetadataSize |-> tpmsize,
     TotalSize |-> tpsize + tpmsize,
     MntOpts |-> IF r.ProvisionerType = ProvisionerTypeLoop
                 THEN <<"rw,inode64,noatime,nouuid,discard", ",loop">>
                 ELSE <<"rw,inode64,noatime,nouuid,discard">>,
     PeerID |-> EmptyString,
     VgName |-> EmptyString,
     RootDevice |-> EmptyString,
     DevicePath |-> EmptyString]

\* The i-th device of an inventory: names are distinct, zone and free
\* space are the inventory's.
Vg(i, zone, avail) ==
    [Name |-> <<"vg", i>>, Device |-> <<"/dev/sd", i>>, PeerID |-> <<"peer", i>>,
     Zone |-> zone, AvailableSize |-> avail, Used |-> FALSE]

\* An inventory GetAvailableVgs may return: n devices with zones z and
\* free space a.
Inventory(n, z, a) == [i \in 1..n |-> Vg(i, z[i], a[i])]

----------------------------------------------------------------------------
(* getBricksLayout: the topology resolver and the layout generator *)

ValidationErrors ==
    {ErrInvalidReplica, ErrInvalidArbiter, ErrRedundancyRequired,
     ErrInvalidRedundancy, ErrMaxBrickTooSmall, ErrMaxBrickTooBig}

\* Lines 22-36.
handleReplicaSubvolReq(r) ==
    IF r.ReplicaCount < 2 THEN [req |-> r, err |-> NoError]
    ELSE IF r.ReplicaCount > 3 THEN [req |-> r, err |-> ErrInvalidReplica]
    ELSE LET r1 == [r EXCEPT !.SubvolType = "replicate"]
         IN  IF r1.ArbiterCount > 1
             THEN [req |-> r1, err |-> ErrInvalidArbiter]
             ELSE [req |-> r1, err |-> NoError]

\* The largest power of two that is at most n (n >= 1).
RECURSIVE HighBit(_)
HighBit(n) == IF n <= 1 THEN 1 ELSE 2 * HighBit(n \div 2)

\* volume.GetRedundancy: the default redundancy of a disperse count, what
\* is left of it above the largest power of two in it, and 1 if nothing is.
GetRedundancy(disperse) ==
    IF disperse <= 0 THEN 1
    ELSE IF disperse - HighBit(disperse) # 0
         THEN disperse - HighBit(disperse)
         ELSE 1

RedundancyInvalidOnlyAboveHalf(r) ==
    2 * r.DisperseRedundancyCount > r.DisperseCount

\* Lines 62-64: the last check of handleDisperseSubvolReq.
RedundancyInvalid(r) ==
    2 * r.DisperseRedundancyCount >= r.DisperseCount

\* Lines 38-67.
handleDisperseSubvolReq(r) ==
    IF r.DisperseCount = 0 /\ r.DisperseDataCount = 0
          /\ r.DisperseRedundancyCount = 0
    THEN [req |-> r, err |-> NoError]
    ELSE LET r1 == [r EXCEPT !.SubvolType = "disperse"] IN
         IF r1.DisperseDataCount > 0 /\ r1.DisperseRedundancyCount <= 0
         THEN [req |-> r1, err |-> ErrRedundancyRequired]
         ELSE
         LET r2 == IF r1.DisperseDataCount > 0
                   THEN [r1 EXCEPT !.DisperseCount =
                            r1.DisperseDataCount + r1.DisperseRedundancyCount]
                   ELSE r1
             r3 == IF r2.DisperseRedundancyCount <= 0
                   THEN [r2 EXCEPT !.DisperseRedundancyCount =
                            GetRedundancy(r2.DisperseCount)]
                   ELSE r2
             r4 == IF r3.DisperseDataCount <= 0
                   THEN [r3 EXCEPT !.DisperseDataCount =
                            r3.DisperseCount - r3.DisperseRedundancyCount]
                   ELSE r3
         IN  IF RedundancyInvalid(r4)
             THEN [req |-> r4, err |-> ErrInvalidRedundancy]
             ELSE [req |-> r4, err |-> NoError]

\* Lines 91-105: the bounds on max-brick-size and its loop-back default.
resolveMaxBrickSize(r) ==
    IF r.MaxBrickSize > 0 /\ r.MaxBrickSize < minBrickSize
    THEN [req |-> r, err |-> ErrMaxBrickTooSmall]
    ELSE IF r.ProvisionerType = ProvisionerTypeLoop
         THEN IF r.MaxBrickSize > defaultMaxLoopBrickSize
              THEN [req |-> r, err |-> ErrMaxBrickTooBig]
              ELSE IF r.MaxBrickSize = 0
                   THEN [req |-> [r EXCEPT !.MaxBrickSize =
                                     defaultMaxLoopBrickSize],
                         err |-> NoError]
                   ELSE [req |-> r, err |-> NoError]
         ELSE [req |-> r, err |-> NoError]

\* Lines 113-116.
maxSubvolSize(r) ==
    IF r.DisperseDataCount > 0
    THEN r.MaxBrickSize * r.DisperseDataCount
    ELSE r.MaxBrickSize

resolveDistributeCountFloor(r) ==
    IF r.MaxBrickSize > 0 /\ r.Size > r.MaxBrickSize
    THEN [r EXCEPT !.DistributeCount = r.Size \div maxSubvolSize(r)]
    ELSE r

\* Lines 109-121: the distribute count derived from max-brick-size.
resolveDistributeCount(r) ==
    IF r.MaxBrickSize > 0 /\ r.Size > r.MaxBrickSize
    THEN [r EXCEPT !.DistributeCount =
             (r.Size \div maxSubvolSize(r)) +
             (IF r.Size % maxSubvolSize(r) > 0 THEN 1 ELSE 0)]
    ELSE r

\* Lines 123-126.
numSubvols(r) == IF r.DistributeCount > 0 THEN r.DistributeCount ELSE 1

\* Lines 129-132.
subvolSize(r) ==
    IF numSubvols(r) > 1 THEN r.Size \div numSubvols(r) ELSE r.Size

\* The keys of subvolPlanners (line 134).
subvolPlanners == {"distribute", "replicate", "disperse"}

\* The strategy's BricksCount() after Init(req, subvolSize): one brick for
\* distribute, replica-count bricks for replicate, disperse-count bricks
\* for disperse.
BricksCount(r) ==
    CASE r.SubvolType = "replicate" -> r.ReplicaCount
      [] r.SubvolType = "disperse" -> r.DisperseCount
      [] OTHER -> 1

\* The strategy's BrickSize(j): the subvolume size, divided by the
\* disperse-data count for a disperse subvolume.
BrickSize(r, size, j) ==
    IF r.SubvolType = "disperse" THEN size \div r.DisperseDataCount ELSE size

\* The strategy's BrickType(j): the last redundancy-count bricks of a
\* disperse subvolume have the parity role.
BrickType(r, j) ==
    IF r.SubvolType = "disperse" /\ j > r.DisperseDataCount
    THEN "parity" ELSE "brick"

\* Sizes are whole MiB here and the backend's allocation granularity
\* divides a MiB: lvmutils.NormalizeSize rounds down to the granularity.
UnitsPerGranule == 1
NormalizeSize(size) == size - (size % UnitsPerGranule)

\* lvmutils.GetPoolMetadataSize: the backend's sizing formula, a 200th of
\* the pool size.
GetPoolMetadataSize(size) == NormalizeSize(size \div 200)

\* Lines 148-177: the bricks of subvolume i.
layoutBricks(r, i) ==
    [j \in 1..BricksCount(r) |->
        LET eachBrickSize == BrickSize(r, subvolSize(r), j)
            eachBrickTpSize == eachBrickSize * r.SnapshotReserveFactor
        IN  BrickReq(r, i, j, BrickType(r, j),
                     NormalizeSize(eachBrickSize),
                     NormalizeSize(eachBrickTpSize),
                     GetPoolMetadataSize(eachBrickTpSize))]

\* Lines 91-188: getBricksLayout after the two handlers.
layoutAfterHandlers(r) ==
    LET m == resolveMaxBrickSize(r) IN
    IF m.err # NoError THEN [req |-> m.req, err |-> m.err, subvols |-> <<>>]
    ELSE
    LET r1 == resolveDistributeCount(m.req) IN
    IF r1.SubvolType \notin subvolPlanners
    THEN [req |-> r1, err |-> ErrTypeNotSupported, subvols |-> <<>>]
    ELSE IF \E j \in 1..BricksCount(r1) :
                BrickSize(r1, subvolSize(r1), j) < minBrickSize
         THEN [req |-> r1, err |-> ErrBrickTooSmall, subvols |-> <<>>]
         ELSE [req |-> r1, err |-> NoError,
               subvols |-> [i \in 1..numSubvols(r1) |-> layoutBricks(r1, i)]]

\* Lines 193-200: PlanBricks up to its call of getBricksLayout.
PlanBricksStart ==
    /\ pc = "PlanBricks"
    /\ IF Len(availableVgs) = 0
       THEN err' = ErrNoDevices /\ pc' = "done"
       ELSE pc' = "getBricksLayout" /\ UNCHANGED err
    /\ UNCHANGED <<req, req0, availableVgs, vgs0, subvols, zones, idx, bidx,
                   numBricksAllocated, entry, log>>

\* Lines 77-83: the default type and the replica handler.
ReplicaStage ==
    /\ pc = "getBricksLayout"
    /\ LET h == handleReplicaSubvolReq([req EXCEPT !.SubvolType = "distribute"])
       IN  /\ req' = h.req
           /\ err' = h.err
           /\ pc' = IF h.err = NoError THEN "disperse" ELSE "done"
    /\ UNCHANGED <<req0, availableVgs, vgs0, subvols, zones, idx, bidx,
                   numBricksAllocated, entry, log>>

\* Lines 86-89: the disperse handler.
DisperseStage ==
    /\ pc = "disperse"
    /\ LET h == handleDisperseSubvolReq(req)
       IN  /\ req' = h.req
           /\ err' = h.err
           /\ pc' = IF h.err = NoError THEN "layout" ELSE "done"
    /\ UNCHANGED <<req0, availableVgs, vgs0, subvols, zones, idx, bidx,
                   numBricksAllocated, entry, log>>

\* Lines 91-188, and lines 202-207 when PlanBricks is the caller.
LayoutStage ==
    /\ pc = "layout"
    /\ LET l == layoutAfterHandlers(req)
       IN  /\ req' = l.req
           /\ err' = l.err
           /\ subvols' = l.subvols
           /\ pc' = IF l.err = NoError /\ entry = "PlanBricks"
                    THEN "subvol" ELSE "done"
    /\ UNCHANGED <<req0, availableVgs, vgs0, zones, idx, bidx,
                   numBricksAllocated, entry, log>>

----------------------------------------------------------------------------
(* PlanBricks: the allocator *)

\* Line 224: the pass-1 condition on a device.
Pass1Match(vg, b, zs) ==
    vg.AvailableSize >= b.TotalSize /\ vg.Zone \notin zs /\ ~vg.Used

Pass2MatchNoZone(vg, b, zs) ==
    vg.AvailableSize >= b.TotalSize

Pass2MatchNoSize(vg, b, zs) ==
    vg.Zone \notin zs

\* Line 254: the pass-2 condition on a device.
Pass2Match(vg, b, zs) ==
    vg.AvailableSize >= b.TotalSize /\ vg.Zone \notin zs

\* The scan `for _, vg := range availableVgs` up to its break: the index of
\* the first device from i on that satisfies the pass's condition, 0 if none.
RECURSIVE ScanVgs(_, _, _, _, _)
ScanVgs(vgs, b, zs, pass, i) ==
    IF i > Len(vgs) THEN 0
    ELSE IF (IF pass = 1 THEN Pass1Match(vgs[i], b, zs)
                         ELSE Pass2Match(vgs[i], b, zs))
         THEN i
         ELSE ScanVgs(vgs, b, zs, pass, i + 1)

DevicePathAlwaysLvm(r, vg, b) ==
    <<"/dev/", vg.Name, "/", b.LvName>>

\* Lines 228-231 (and 258-261): the device path of a placed brick.
DevicePath(r, vg, b) ==
    IF r.ProvisionerType = ProvisionerTypeLoop
    THEN <<vg.Device, "/", b.TpName, "/", b.LvName, ".img">>
    ELSE <<"/dev/", vg.Name, "/", b.LvName>>

\* Lines 225-231: the brick with its placement fields filled from the device.
PlacedBrick(r, vg, b) ==
    [b EXCEPT !.PeerID = vg.PeerID,
              !.VgName = vg.Name,
              !.RootDevice = vg.Device,
              !.DevicePath = DevicePath(r, vg, b)]

\* Lines 235-236, through the range variable vg: the device's free space is
\* decremented and the device is marked used in the working copy.
UsedVg(vg, b) ==
    [vg EXCEPT !.AvailableSize = @ - b.TotalSize, !.Used = TRUE]

ZonesAlwaysReset(r, zs) == {}

\* Lines 213-215: the zones map a subvolume starts with.
ZonesAtSubvolStart(r, zs) ==
    IF r.SubvolZonesOverlap THEN {} ELSE zs

\* One iteration of a brick loop (lines 221-240 for pass 1, 250-270 for
\* pass 2): scan the devices for brick bidx and place it on the first match.
TryBrick(pass) ==
    LET b == subvols[idx][bidx]
        v == ScanVgs(availableVgs, b, zones, pass, 1)
    IN  /\ IF v = 0
           THEN UNCHANGED <<subvols, zones, numBricksAllocated, availableVgs, log>>
           ELSE /\ subvols' = [subvols EXCEPT ![idx][bidx] =
                                  PlacedBrick(req, availableVgs[v], b)]
                /\ zones' = zones \cup {availableVgs[v].Zone}
                /\ numBricksAllocated' = numBricksAllocated + 1
                /\ availableVgs' = [availableVgs EXCEPT ![v] = UsedVg(@, b)]
                /\ log' = Append(log, [sv |-> idx, brick |-> bidx, vg |-> v,
                                       pass |-> pass,
                                       wasUsed |-> availableVgs[v].Used,
                                       zone |-> availableVgs[v].Zone])
        /\ bidx' = bidx + 1
        /\ UNCHANGED <<req, req0, vgs0, idx, pc, err, entry>>

\* Lines 209-220: the head of the loop over the subvolumes.
BeginSubvol ==
    /\ pc = "subvol"
    /\ idx <= Len(subvols)
    /\ zones' = ZonesAtSubvolStart(req, zones)
    /\ numBricksAllocated' = 0
    /\ bidx' = 1
    /\ pc' = "pass1"
    /\ UNCHANGED <<req, req0, availableVgs, vgs0, subvols, idx, err, entry, log>>

\* Lines 221-240: pass 1 for one brick.
Pass1Brick ==
    /\ pc = "pass1"
    /\ bidx <= Len(subvols[idx])
    /\ TryBrick(1)

\* Lines 244-250: after pass 1, go to the next subvolume or start pass 2
\* at index numBricksAllocated.
Pass1Done ==
    /\ pc = "pass1"
    /\ bidx > Len(subvols[idx])
    /\ IF Len(subvols[idx]) = numBricksAllocated
       THEN /\ idx' = idx + 1
            /\ pc' = "subvol"
            /\ UNCHANGED bidx
       ELSE /\ bidx' = numBricksAllocated + 1
            /\ pc' = "pass2"
            /\ UNCHANGED idx
    /\ UNCHANGED <<req, req0, availableVgs, vgs0, subvols, zones,
                   numBricksAllocated, err, entry, log>>

\* Lines 250-270: pass 2 for one brick.
Pass2Brick ==
    /\ pc = "pass2"
    /\ bidx <= Len(subvols[idx])
    /\ TryBrick(2)

\* Lines 272-276: after pass 2, fail or go to the next subvolume.
Pass2Done ==
    /\ pc = "pass2"
    /\ bidx > Len(subvols[idx])
    /\ IF Len(subvols[idx]) # numBricksAllocated
       THEN /\ err' = ErrNoSpace
            /\ pc' = "done"
            /\ UNCHANGED idx
       ELSE /\ idx' = idx + 1
            /\ pc' = "subvol"
            /\ UNCHANGED err
    /\ UNCHANGED <<req, req0, availableVgs, vgs0, subvols, zones, bidx,
                   numBricksAllocated, entry, log>>

\* Lines 278-279: the plan is written to the request.
ReturnPlan ==
    /\ pc = "subvol"
    /\ idx > Len(subvols)
    /\ req' = [req EXCEPT !.Subvols = subvols]
    /\ pc' = "done"
    /\ UNCHANGED <<req0, availableVgs, vgs0, subvols, zones, idx, bidx,
                   numBricksAllocated, err, entry, log>>

\* The layouts the allocator is run on: every subvolume has the same number
\* of bricks and brick j has the same total size in every subvolume (line
\* 150: the size is the strategy's BrickSize(j)); the sizes of one
\* subvolume's bricks may differ (a data brick and an arbiter brick).
Layout(r, n, m, t) ==
    [i \in 1..n |-> [j \in 1..m |-> BrickReq(r, i, j, "brick", t[j], t[j], 0)]]

\* PlanBricks at line 207: the inventory is not empty and getBricksLayout
\* has returned a layout.  Zone names are interchangeable, so the first
\* device is taken to be in zoneA.
Init ==
    /\ \E p \in {ProvisionerTypeLvm, ProvisionerTypeLoop}, o \in BOOLEAN :
          req = [ZeroReq EXCEPT !.ProvisionerType = p,
                                !.SubvolZonesOverlap = o,
                                !.SubvolType = "distribute"]
    /\ req0 = req
    /\ \E n \in 1..MaxSubvols, m \in 1..MaxBricks :
          \E t \in [1..m -> BrickTotals] : subvols = Layout(req, n, m, t)
    /\ \E n \in 1..MaxVgs :
          \E z \in [1..n -> ZoneNames], a \in [1..n -> AvailSizes] :
             /\ z[1] = "zoneA"
             /\ availableVgs = Inventory(n, z, a)
    /\ vgs0 = availableVgs
    /\ zones = {}
    /\ idx = 1
    /\ bidx = 1
    /\ numBricksAllocated = 0
    /\ pc = "subvol"
    /\ err = NoError
    /\ entry = "PlanBricks"
    /\ log = <<>>

Next ==
    \/ BeginSubvol
    \/ Pass1Brick
    \/ Pass1Done
    \/ Pass2Brick
    \/ Pass2Done
    \/ ReturnPlan

Spec == Init /\ [][Next]_vars

----------------------------------------------------------------------------
(* getBricksLayout on a range of requests *)

MaxDisperse == 4
MaxDistribute == 2

ReplicaCounts == 0..4
ArbiterCounts == 0..2
MaxBrickSizes == {0, 10 * MiB, 100 * GiB, 200 * GiB}
Sizes == {30 * MiB, 200 * GiB, TiB}

\* A request with the given counts and sizes, other fields zero.
Request(sz, mbs, rc, ac, dc, dd, dr, dist, p) ==
    [ZeroReq EXCEPT !.Size = sz, !.MaxBrickSize = mbs,
                    !.ReplicaCount = rc, !.ArbiterCount = ac,
                    !.DisperseCount = dc, !.DisperseDataCount = dd,
                    !.DisperseRedundancyCount = dr,
                    !.DistributeCount = dist, !.ProvisionerType = p]

InitLocals ==
    /\ req0 = req
    /\ vgs0 = availableVgs
    /\ subvols = <<>>
    /\ zones = {}
    /\ idx = 1
    /\ bidx = 1
    /\ numBricksAllocated = 0
    /\ err = NoError
    /\ log = <<>>

InitLayout ==
    /\ \E sz \in Sizes, mbs \in MaxBrickSizes, rc \in ReplicaCounts,
          ac \in ArbiterCounts, dc \in 0..MaxDisperse, dd \in 0..MaxDisperse,
          dr \in 0..MaxDisperse, dist \in 0..MaxDistribute,
          p \in {ProvisionerTypeLvm, ProvisionerTypeLoop} :
             req = Request(sz, mbs, rc, ac, dc, dd, dr, dist, p)
    /\ availableVgs = <<>>
    /\ pc = "getBricksLayout"
    /\ entry = "getBricksLayout"
    /\ InitLocals

NextLayout ==
    \/ ReplicaStage
    \/ DisperseStage
    \/ LayoutStage

SpecLayout == InitLayout /\ [][NextLayout]_vars

----------------------------------------------------------------------------
(* PlanBricks on the loop-back scenario *)

ScenarioAvailSizes == {100 * GiB, 2 * TiB}

InitScenario ==
    /\ \E o \in BOOLEAN :
          req = [ZeroReq EXCEPT !.Size = TiB, !.MaxBrickSize = 100 * GiB,
                                !.ProvisionerType = ProvisionerTypeLoop,
                                !.SubvolZonesOverlap = o]
    /\ \E n \in 0..MaxVgs :
          \E z \in [1..n -> ZoneNames], a \in [1..n -> ScenarioAvailSizes] :
             availableVgs = Inventory(n, z, a)
    /\ pc = "PlanBricks"
    /\ entry = "PlanBricks"
    /\ InitLocals

NextScenario ==
    \/ PlanBricksStart
    \/ ReplicaStage
    \/ DisperseStage
    \/ LayoutStage
    \/ BeginSubvol
    \/ Pass1Brick
    \/ Pass1Done
    \/ Pass2Brick
    \/ Pass2Done
    \/ ReturnPlan

SpecScenario == InitScenario /\ [][NextScenario]_vars

----------------------------------------------------------------------------
(* Properties of the allocator *)

Succeeded == pc = "done" /\ err = NoError
Failed == pc = "done" /\ err # NoError

\* All four placement fields of a brick are filled.
IsPlaced(b) ==
    /\ b.PeerID # EmptyString
    /\ b.VgName # EmptyString
    /\ b.RootDevice # EmptyString
    /\ b.DevicePath # EmptyString

\* The device of the inventory snapshot a placed brick names.
VgOf(b) == CHOOSE i \in DOMAIN vgs0 : vgs0[i].Name = b.VgName

\* All the bricks of a plan, as a set of <<subvolume, brick>> positions.
Positions(plan) ==
    UNION { { <<s, j>> : j \in DOMAIN plan[s] } : s \in DOMAIN plan }

RECURSIVE SumTotal(_, _)
SumTotal(plan, ps) ==
    IF ps = {} THEN 0
    ELSE LET p == CHOOSE q \in ps : TRUE
         IN  plan[p[1]][p[2]].TotalSize + SumTotal(plan, ps \ {p})

RECURSIVE SumAvail(_, _)
SumAvail(vgs, i) ==
    IF i > Len(vgs) THEN 0 ELSE vgs[i].AvailableSize + SumAvail(vgs, i + 1)

\* The positions of the plan's bricks placed on device i.
PlacedOn(plan, i) ==
    { p \in Positions(plan) :
        /\ plan[p[1]][p[2]].VgName # EmptyString
        /\ VgOf(plan[p[1]][p[2]]) = i }

\* C1: in a plan returned with the zone-overlap flag false, no two placed
\* bricks of one subvolume are on devices of the same zone.
C1_NoSharedZoneInSubvol ==
    (Succeeded /\ ~req.SubvolZonesOverlap) =>
        \A s \in DOMAIN req.Subvols :
            \A j, k \in DOMAIN req.Subvols[s] :
                (/\ j # k
                 /\ req.Subvols[s][j].VgName # EmptyString
                 /\ req.Subvols[s][k].VgName # EmptyString)
                => vgs0[VgOf(req.Subvols[s][j])].Zone #
                   vgs0[VgOf(req.Subvols[s][k])].Zone

\* C1 witness: a returned plan, flag false, with a subvolume of two placed
\* bricks, from an inventory that has two devices in one zone.
C1_Witness ==
    /\ Succeeded
    /\ ~req.SubvolZonesOverlap
    /\ \E s \in DOMAIN req.Subvols :
          /\ Len(req.Subvols[s]) >= 2
          /\ \A j \in DOMAIN req.Subvols[s] : IsPlaced(req.Subvols[s][j])
    /\ \E i, k \in DOMAIN vgs0 : i # k /\ vgs0[i].Zone = vgs0[k].Zone

\* C2 (as claimed): every brick of a returned plan has its placement fields
\* filled, and pass 2 treats exactly the bricks pass 1 left unplaced.
C2_EveryBrickPlaced ==
    /\ Succeeded =>
         \A s \in DOMAIN req.Subvols :
             \A j \in DOMAIN req.Subvols[s] : IsPlaced(req.Subvols[s][j])
    /\ \A k, l \in DOMAIN log :
         (log[k].pass = 1 /\ log[l].pass = 2 /\ log[k].sv = log[l].sv)
         => log[k].brick # log[l].brick

\* C3 (as claimed): too little free space in the inventory makes the call
\* fail with the capacity error, and a failed call leaves req.Subvols unset.
C3_TooLittleSpaceFails ==
    /\ (pc = "done" /\
        SumAvail(vgs0, 1) < SumTotal(subvols, Positions(subvols)))
       => (err = ErrNoSpace /\ req.Subvols = <<>>)
    /\ Failed => req.Subvols = <<>>

\* C8 (as claimed): every subvolume starts with an empty zone-used set.
C8_ZonesResetEverySubvol ==
    (pc = "pass1" /\ bidx = 1) => zones = {}

\* C8 (amended): the zone-used set is reset at the start of a subvolume when
\* the zone-overlap flag is true; when it is false the set is kept, so every
\* placement of the call is on a zone no earlier placement used.
C8_ZonesResetOnlyOnOverlap ==
    /\ (req.SubvolZonesOverlap /\ pc = "pass1" /\ bidx = 1) => zones = {}
    /\ ~req.SubvolZonesOverlap =>
         /\ \A k \in DOMAIN log : log[k].zone \in zones
         /\ \A k, l \in DOMAIN log : k # l => log[k].zone # log[l].zone

\* C8 witness: flag false, the second subvolume starts with the zone of the
\* first subvolume's brick still in the set.
C8_Witness ==
    /\ ~req.SubvolZonesOverlap
    /\ pc = "pass1" /\ bidx = 1 /\ idx = 2
    /\ zones # {}
    /\ \E k \in DOMAIN log : log[k].sv = 1

\* C9: in a returned plan the bricks placed on one device sum to at most
\* the free space the device had in the snapshot; no device is ever
\* decremented below zero, and pass 1 never takes a device marked used.
C9_DeviceNotOvercommitted ==
    /\ Succeeded =>
          \A i \in DOMAIN vgs0 :
              SumTotal(req.Subvols, PlacedOn(req.Subvols, i))
                  <= vgs0[i].AvailableSize
    /\ \A i \in DOMAIN availableVgs : availableVgs[i].AvailableSize >= 0
    /\ \A k \in DOMAIN log : log[k].pass = 1 => ~log[k].wasUsed

\* C9 witness: a returned plan with two bricks on one device, one of them
\* placed by pass 2, that fill the device exactly.
C9_Witness ==
    /\ Succeeded
    /\ \E i \in DOMAIN vgs0 :
          /\ Cardinality(PlacedOn(req.Subvols, i)) >= 2
          /\ SumTotal(req.Subvols, PlacedOn(req.Subvols, i))
                = vgs0[i].AvailableSize
          /\ \E k \in DOMAIN log : log[k].vg = i /\ log[k].pass = 2

\* C10 (as claimed): a brick goes to a device already marked used only in
\* pass 2 and only if pass 1 placed that brick nowhere; pass 2 runs only
\* when pass 1 left a brick of the subvolume unplaced.
C10_UsedDeviceOnlyAfterPass1Miss ==
    /\ \A k \in DOMAIN log :
         log[k].wasUsed =>
            /\ log[k].pass = 2
            /\ \A l \in DOMAIN log :
                 (log[l].sv = log[k].sv /\ log[l].brick = log[k].brick)
                 => log[l].pass = 2
    /\ pc = "pass2" => numBricksAllocated < Len(subvols[idx]) \/ bidx > 1

----------------------------------------------------------------------------
(* Properties of the resolver and of the scenario *)

\* The per-subvolume capacity of a resolved request that has a max brick size.
SubvolCapacity(r) ==
    IF r.SubvolType = "disperse"
    THEN r.MaxBrickSize * r.DisperseDataCount
    ELSE r.MaxBrickSize

\* C4: when the max brick size is set or defaulted and the requested size
\* exceeds it, the resolved distribute count is the least n with
\* n x per-subvolume capacity >= requested size, whatever the caller gave.
C4_DistributeCountIsCeiling ==
    (Succeeded /\ req.MaxBrickSize > 0 /\ req.Size > req.MaxBrickSize) =>
        /\ req.DistributeCount * SubvolCapacity(req) >= req.Size
        /\ (req.DistributeCount - 1) * SubvolCapacity(req) < req.Size

\* C4 witness: a disperse layout whose size is no multiple of the capacity,
\* from a request that gave another distribute count and no max brick size
\* (the loop-back default applies).
C4_Witness ==
    /\ Succeeded
    /\ req.SubvolType = "disperse"
    /\ req0.MaxBrickSize = 0 /\ req.MaxBrickSize > 0
    /\ req.Size > req.MaxBrickSize
    /\ req.Size % SubvolCapacity(req) # 0
    /\ req0.DistributeCount # 0
    /\ req0.DistributeCount # req.DistributeCount

\* C5 (as claimed): after the replica handler, replica count 0 or 1 leaves
\* the type distribute, 2 or 3 makes it replicate, and replica count > 3 or
\* arbiter count > 1 (with any replica count) ends the call in a
\* validation error.
C5_ReplicaArbiterResolution ==
    /\ pc = "disperse" =>
         /\ req0.ReplicaCount <= 3
         /\ req0.ArbiterCount <= 1
         /\ req0.ReplicaCount \in {0, 1} => req.SubvolType = "distribute"
         /\ req0.ReplicaCount \in {2, 3} => req.SubvolType = "replicate"
    /\ (pc = "done" /\ (req0.ReplicaCount > 3 \/ req0.ArbiterCount > 1))
       => err \in ValidationErrors

\* C6: a call that succeeds with type disperse has 2 x redundancy <
\* disperse count, and a request with disperse-data > 0 and redundancy 0
\* ends in a validation error.
C6_RedundancyBelowHalf ==
    /\ (Succeeded /\ req.SubvolType = "disperse")
       => 2 * req.DisperseRedundancyCount < req.DisperseCount
    /\ (pc = "done" /\ req0.DisperseDataCount > 0
                    /\ req0.DisperseRedundancyCount = 0)
       => err \in ValidationErrors

\* C6 witness: a successful disperse layout whose redundancy was derived
\* from the disperse count alone.
C6_Witness ==
    /\ Succeeded
    /\ req.SubvolType = "disperse"
    /\ req0.DisperseCount > 0
    /\ req0.DisperseDataCount = 0
    /\ req0.DisperseRedundancyCount = 0
    /\ req.DisperseRedundancyCount > 0

\* Every subvolume of the plan has one brick, and every brick's device path
\* is the image file <root device>/<thin-pool name>/<lv name>.img.
SingleBrickImagePlan(plan) ==
    \A s \in DOMAIN plan :
        /\ Len(plan[s]) = 1
        /\ IsPlaced(plan[s][1])
        /\ plan[s][1].DevicePath =
              <<vgs0[VgOf(plan[s][1])].Device, "/", plan[s][1].TpName, "/",
                plan[s][1].LvName, ".img">>

\* C7 (as claimed): size 1 TiB, max brick size 100 GiB, loop-back: the
\* distribute count is 10 and the plan has 10 single-brick subvolumes with
\* image-file device paths.
C7_ScenarioTenSubvols ==
    Succeeded =>
        /\ req.DistributeCount = 10
        /\ Len(req.Subvols) = 10
        /\ SingleBrickImagePlan(req.Subvols)

\* C7 (amended): the same scenario resolves to distribute count 11 (1 TiB
\* is 10.24 times 100 GiB) and a plan of 11 single-brick subvolumes, each
\* brick's device path an image file under its thin-pool name.
C7_ScenarioElevenSubvols ==
    /\ pc \in {"subvol", "pass1", "pass2"} =>
         /\ req.DistributeCount = 11
         /\ Len(subvols) = 11
         /\ \A s \in DOMAIN subvols : Len(subvols[s]) = 1
    /\ Succeeded =>
         /\ req.DistributeCount = 11
         /\ Len(req.Subvols) = 11
         /\ SingleBrickImagePlan(req.Subvols)
    /\ \A s \in DOMAIN subvols : \A j \in DOMAIN subvols[s] :
         subvols[s][j].DevicePath # EmptyString =>
            subvols[s][j].DevicePath =
               <<vgs0[VgOf(subvols[s][j])].Device, "/", subvols[s][j].TpName,
                 "/", subvols[s][j].LvName, ".img">>

\* C7 witness: the scenario's plan is returned.
C7_Witness ==
    /\ Succeeded
    /\ req0.Size = TiB /\ req0.MaxBrickSize = 100 * GiB
    /\ req.ProvisionerType = ProvisionerTypeLoop
    /\ Len(req.Subvols) > 0

====
